---- MODULE Spec2Model ----
(***************************************************************************)
(* GatewayClient (ether-portal-web/js/gateway.js): the WebSocket client    *)
(* of the Ether Portal, as a state machine.  One step of the model is one  *)
(* task of the browser's event loop: a call of the public API, a timer     *)
(* callback or a transport event, together with the promise reactions      *)
(* (microtasks) it triggers.                                               *)
(*                                                                         *)
(* A "slot" holds what one run of the connect() executor creates: the      *)
(* promise, the WebSocket and the connection timeout, all three captured   *)
(* by the closures of that run.  A slot whose socket is closed, whose      *)
(* promise is settled and whose timer is gone is reused by a later run.    *)
(***************************************************************************)
EXTENDS Integers, Sequences, FiniteSets, TLC

\* Bounds.  Every specification below runs all of its actions; they differ in
\* the part of the client they exercise and in the bounds they start with, which
\* the variable lim holds.
LifeSlots == 2              \* Spec: executor runs that can be alive at once
LifeReqs == 2               \* Spec: bound on the request counter
CorrSlots == 1              \* SpecReq: executor runs that can be alive at once
CorrReqs == 3               \* SpecReq: bound on the request counter
MaxCount == 2               \* Spec, SpecReq: bound on connectionAttempts
MaxRetry == 1               \* bound on the catch handlers attached to one promise
MaxHandlers == 3            \* SpecEmit: distinct handler functions
EventSlots == 1             \* SpecEvent: executor runs alive at once
EventReqs == 1              \* SpecEvent: request ids (the connect request)
EventHandlers == 2          \* SpecEvent: distinct handler functions
FairSlots == 1              \* SpecFair: executor runs alive at once
FairReqs == 2               \* SpecFair: request ids (a connect request and a send)
SchedSlots == 2             \* SpecSched: executor runs that can be alive at once
SchedCount == 6             \* SpecSched: bound on connectionAttempts
SchedRetry == 2             \* SpecSched: catch handlers attached to one promise
AuthToks == 2               \* SpecAuth: distinct token values
AuthReqs == 2               \* SpecAuth: bound on the request counter
PingSlots == 2              \* SpecPing: executor runs that can be alive at once

maxReconnectAttempts == 5

Max(a, b) == IF a > b THEN a ELSE b

AllSlots == 1..Max(Max(LifeSlots, CorrSlots), Max(SchedSlots, PingSlots))
AllReqs == 1..Max(Max(LifeReqs, CorrReqs), AuthReqs)
NoSlot == 0                 \* null / no promise / no socket

VARIABLES
  ws,                 \* this.ws: slot of the socket held, or NoSlot
  connected,          \* this.connected
  requestId,          \* this.requestId
  pendingRequests,    \* keys of this.pendingRequests
  reconnectTimer,     \* this.reconnectTimer is set
  pingInterval,       \* this.pingInterval is set
  sincePong,          \* ms from this.lastPong to the latest tick of the interval
                      \* (negative: lastPong was written after that tick); Date.now() -
                      \* lastPong is read by the interval callback only and startPing
                      \* rewrites lastPong, so it is tracked while the interval is set
  timers,             \* reconnect timeouts set and neither fired nor cleared
  configToken,        \* this.config.token: 0 ('') or the token
  deviceToken,        \* localStorage 'ether-portal-device-token': 0 (absent) or the token
  eventHandlers,      \* this.eventHandlers: topic -> its Set of handlers, in insertion order
  calls,              \* handler invocations the emit() calls of the last step made:
                      \* <<handler, argument>> in order
  connectionAttempts, \* this.connectionAttempts
  challengeNonce,     \* this.challengeNonce: 0 (null) or the nonce
  connectPromise,     \* this.connectPromise: slot of the promise, or NoSlot
  rs,                 \* slot -> readyState of its socket
  prom,               \* slot -> state of its promise
  ctimer,             \* slot -> state of its connection timeout
  retry,              \* slot -> number of scheduleReconnect catch handlers on its promise
  rkind,              \* request id -> "none" | "send" | "connect"
  rprom,              \* request id -> outcome of the promise send() returned
  rtimer,             \* request id -> state of the 30s timeout
  rsettle,            \* request id -> calls of its resolve/reject so far
  rremoved,           \* request id -> removals of its map entry so far
  emitted,            \* dispatcher events emitted by the last step, in order
  wrote,              \* frames written to a socket by the last step: <<slot, frame>>
  closeReq,           \* ws.close calls of the last step that started a close: <<slot, code>>
  armedDelay,         \* delay of the reconnect timer armed by the last step, or 0
  last,               \* the last step: the operation and what it did (and, for a
                      \* hello-ok, the device token its payload carried)
  lim                 \* the bounds of this run: [slots, reqs, count, retry, toks]

vars == <<ws, connected, requestId, pendingRequests, reconnectTimer, pingInterval,
          sincePong, timers, configToken, deviceToken, eventHandlers, calls,
          connectionAttempts, challengeNonce, connectPromise,
          rs, prom, ctimer, retry, rkind, rprom, rtimer, rsettle, rremoved,
          emitted, wrote, closeReq, armedDelay, last, lim>>

clientVars == <<ws, connected, requestId, pendingRequests, reconnectTimer, pingInterval,
                sincePong, timers, configToken, deviceToken, eventHandlers,
                connectionAttempts, challengeNonce, connectPromise>>
slotVars == <<rs, prom, ctimer, retry>>
reqVars == <<rkind, rprom, rtimer, rsettle, rremoved>>

Min(a, b) == IF a < b THEN a ELSE b

Slots == 1..lim.slots
ReqIds == 1..lim.reqs
MaxReq == lim.reqs
Tokens == 1..lim.toks

\* the topics followed: one event name and the wildcard
Topics == {"tick", "*"}

Rep(n, x) == [i \in 1..n |-> x]

(***************************************************************************)
(* Observers                                                               *)
(***************************************************************************)
GetState(w, rsf, conn) ==
  IF w = NoSlot THEN "disconnected"
  ELSE CASE rsf[w] = "CONNECTING" -> "connecting"
         [] rsf[w] = "OPEN" -> (IF conn THEN "connected" ELSE "authenticating")
         [] rsf[w] = "CLOSING" -> "closing"
         [] rsf[w] = "CLOSED" -> "disconnected"
         [] OTHER -> "unknown"

getConnectionState == GetState(ws, rs, connected)

IsConn(w, rsf, conn) == conn /\ w # NoSlot /\ rsf[w] = "OPEN"

isConnected == IsConn(ws, rs, connected)

Live(a) == rs[a] \in {"CONNECTING", "OPEN"}

(***************************************************************************)
(* WebSocket.close(code): starts the closing handshake of a socket that is *)
(* connecting or open, and does nothing to one that is closing or closed.  *)
(***************************************************************************)
CloseRs(rsf, a) ==
  IF rsf[a] \in {"CONNECTING", "OPEN"} THEN [rsf EXCEPT ![a] = "CLOSING"] ELSE rsf

CloseCall(rsf, a, code) ==
  IF rsf[a] \in {"CONNECTING", "OPEN"} THEN <<<<a, code>>>> ELSE <<>>

(***************************************************************************)
(* scheduleReconnect(), called n times in a row (once per catch handler of *)
(* a rejected promise) with the timer and the counter as they are then.    *)
(***************************************************************************)
\* a backoff that starts from twice the base
DelayDoubleBase(n) == Min(2000 * (2 ^ n), 30000)

\* Math.min(1000 * Math.pow(2, this.connectionAttempts), 30000)
Delay(n) == Min(1000 * (2 ^ n), 30000)

\* a scheduler without its guard
SchedGuardOff(timer) == FALSE

\* if (this.reconnectTimer) return;
SchedGuard(timer) == timer

\* armed: the timeouts the n calls set (the first call sets this.reconnectTimer,
\* so the calls after it meet the guard)
SchedN(n, timer, attempts) ==
  IF n = 0 \/ SchedGuard(timer)
  THEN [timer |-> timer, delay |-> 0, em |-> <<>>, armed |-> 0]
  ELSE IF attempts >= maxReconnectAttempts
       THEN [timer |-> FALSE, delay |-> 0, em |-> Rep(n, "max_reconnects"), armed |-> 0]
       ELSE [timer |-> TRUE, delay |-> Delay(attempts), em |-> <<>>,
             armed |-> IF SchedGuard(TRUE) THEN 1 ELSE n]

\* reject(a): the catch handlers run only if the promise was still pending
Handlers(a) == IF prom[a] = "pending" THEN retry[a] ELSE 0

\* an error branch that forgets connectReject
RejectNever(pf, a) == pf

\* reject(...) of the executor of slot a
RejectProm(pf, a) == IF pf[a] = "pending" THEN [pf EXCEPT ![a] = "rejected"] ELSE pf

\* a hello-ok branch that forgets connectResolve
ResolveNever(pf, a) == pf

\* connectResolve(data.payload)
ResolveProm(pf, a) == IF pf[a] = "pending" THEN [pf EXCEPT ![a] = "resolved"] ELSE pf

\* a stopPing() that leaves the interval running
stopPingKeepsInterval == pingInterval

\* stopPing(): clearInterval and this.pingInterval = null
stopPing == FALSE

\* a handler that emits before it writes the flag: the flag is the old one
FlagAtEmitOld(op, conn) == conn

\* this.connected when the life-cycle event of the step is emitted: set before
\* emit('connected'), cleared before emit('disconnected')
FlagAtEmit(op, conn) == op = "hello"

InitClient ==
  /\ ws = NoSlot
  /\ connected = FALSE
  /\ requestId = 0
  /\ pendingRequests = {}
  /\ reconnectTimer = FALSE
  /\ pingInterval = FALSE
  /\ sincePong = 0
  /\ timers = 0
  /\ configToken = 0
  /\ deviceToken = 0
  /\ eventHandlers = [t \in Topics |-> <<>>]
  /\ calls = <<>>
  /\ connectionAttempts = 0
  /\ challengeNonce = 0
  /\ connectPromise = NoSlot
  /\ rs = [a \in AllSlots |-> "NONE"]
  /\ prom = [a \in AllSlots |-> "none"]
  /\ ctimer = [a \in AllSlots |-> "none"]
  /\ retry = [a \in AllSlots |-> 0]
  /\ rkind = [r \in AllReqs |-> "none"]
  /\ rprom = [r \in AllReqs |-> "none"]
  /\ rtimer = [r \in AllReqs |-> "none"]
  /\ rsettle = [r \in AllReqs |-> 0]
  /\ rremoved = [r \in AllReqs |-> 0]
  /\ emitted = <<>>
  /\ wrote = <<>>
  /\ closeReq = <<>>
  /\ armedDelay = 0
  /\ last = [op |-> "init", r |-> "none"]

Init ==
  /\ InitClient
  /\ lim = [slots |-> LifeSlots, reqs |-> LifeReqs, count |-> MaxCount,
            retry |-> MaxRetry, toks |-> 0]

InitReq ==
  /\ InitClient
  /\ lim = [slots |-> CorrSlots, reqs |-> CorrReqs, count |-> MaxCount,
            retry |-> MaxRetry, toks |-> 0]

(***************************************************************************)
(* The dispatcher: on, off and emit as collaborators call them.  A handler *)
(* is a number; a Set of handlers is the sequence of its members in        *)
(* insertion order; what a handler receives is a record telling whether it *)
(* got the data itself or the {event, data} object of the wildcard loop.   *)
(***************************************************************************)
HandlerIds == 1..MaxHandlers

EmitTopics == Topics \cup {"other"}

Has(seq, h) == \E i \in 1..Len(seq) : seq[i] = h

\* a Set that puts a new member first
SetAddFirst(seq, h) == IF Has(seq, h) THEN seq ELSE <<h>> \o seq

\* Set.prototype.add: a member already there keeps its place
SetAdd(seq, h) == IF Has(seq, h) THEN seq ELSE Append(seq, h)

\* Set.prototype.delete
SetDelete(seq, h) == SelectSeq(seq, LAMBDA x : x # h)

\* this.eventHandlers.get(event), undefined read as no handlers
HandlersOf(topic) == IF topic \in DOMAIN eventHandlers THEN eventHandlers[topic] ELSE <<>>

PlainArg(data) == [kind |-> "data", event |-> "", data |-> data]

WildArg(topic, data) == [kind |-> "object", event |-> topic, data |-> data]

\* a loop without try/catch: a handler that throws ends it
HandlerAbortsOnThrow(h, throwers) == h \in throwers

\* try { handler(...) } catch (e) { console.error(...) }: the loop goes on
HandlerAborts(h, throwers) == FALSE

RECURSIVE ForEach(_, _, _)
\* handlers.forEach(handler => ...): the invocations made, and whether an
\* exception left the loop
ForEach(hs, arg, throwers) ==
  IF hs = <<>> THEN [calls |-> <<>>, threw |-> FALSE]
  ELSE IF HandlerAborts(Head(hs), throwers)
       THEN [calls |-> <<<<Head(hs), arg>>>>, threw |-> TRUE]
       ELSE LET rest == ForEach(Tail(hs), arg, throwers) IN
            [calls |-> <<<<Head(hs), arg>>>> \o rest.calls, threw |-> rest.threw]

\* emit(event, data): the handlers of the topic, then the wildcard handlers
EmitRun(topic, data, throwers) ==
  LET own == ForEach(HandlersOf(topic), PlainArg(data), throwers) IN
  IF own.threw THEN own
  ELSE LET wild == ForEach(HandlersOf("*"), WildArg(topic, data), throwers) IN
       [calls |-> own.calls \o wild.calls, threw |-> wild.threw]

\* the data of the events the client emits by itself (an object it builds)
ClientData == 0

RECURSIVE Dispatch(_, _)
\* this.emit(name, data) for each name in turn, no handler throwing
Dispatch(names, data) ==
  IF names = <<>> THEN <<>>
  ELSE EmitRun(Head(names), data, {}).calls \o Dispatch(Tail(names), data)

Step(op, r) ==
  /\ last' = [op |-> op, r |-> r]
  /\ lim' = lim
  /\ calls' = Dispatch(emitted', ClientData)

\* a step about the request id a frame or a timeout callback carries
StepId(op, r, id) ==
  /\ last' = [op |-> op, r |-> r, id |-> id]
  /\ lim' = lim
  /\ calls' = Dispatch(emitted', ClientData)

(***************************************************************************)
(* configure(config) with a token                                          *)
(***************************************************************************)
Configure(tok) ==
  /\ tok \in {0} \cup Tokens
  /\ configToken' = tok
  /\ emitted' = <<>>
  /\ wrote' = <<>>
  /\ closeReq' = <<>>
  /\ armedDelay' = 0
  /\ Step("configure", "none")
  /\ UNCHANGED <<ws, connected, requestId, pendingRequests, reconnectTimer, timers,
                 pingInterval, sincePong, deviceToken, eventHandlers, connectionAttempts,
                 challengeNonce, connectPromise, slotVars, reqVars>>

(***************************************************************************)
(* connect()                                                               *)
(***************************************************************************)
\* a slot whose closures can act no more: its socket is closed (no event will
\* come from it), its promise is settled, its timer is gone
Inert(a) ==
  /\ rs[a] \in {"NONE", "CLOSED"}
  /\ prom[a] # "pending"
  /\ ctimer[a] # "armed"

FreeSlots == {a \in Slots : Inert(a)}

NewSlot == CHOOSE a \in FreeSlots : \A b \in FreeSlots : a <= b

\* an executor that forgets this.connectionAttempts++
ExecutorNoCount(a, throws) ==
  /\ connectionAttempts' = connectionAttempts
  /\ connectPromise' = a
  /\ retry' = [retry EXCEPT ![a] = 0]
  /\ IF throws
     THEN /\ prom' = [prom EXCEPT ![a] = "rejected"]
          /\ UNCHANGED <<rs, ctimer, ws>>
     ELSE /\ prom' = [prom EXCEPT ![a] = "pending"]
          /\ rs' = [rs EXCEPT ![a] = "CONNECTING"]
          /\ ctimer' = [ctimer EXCEPT ![a] = "armed"]
          /\ ws' = a

\* the promise executor: counts the attempt, opens the socket, arms the timeout;
\* when the WebSocket constructor throws the promise is rejected at once and
\* stays in connectPromise (the assignment follows the executor), and no socket
\* and no timer are created: the slot keeps the closed socket it had
Executor(a, throws) ==
  /\ connectionAttempts' = connectionAttempts + 1
  /\ connectPromise' = a
  /\ retry' = [retry EXCEPT ![a] = 0]
  /\ IF throws
     THEN /\ prom' = [prom EXCEPT ![a] = "rejected"]
          /\ UNCHANGED <<rs, ctimer, ws>>
     ELSE /\ prom' = [prom EXCEPT ![a] = "pending"]
          /\ rs' = [rs EXCEPT ![a] = "CONNECTING"]
          /\ ctimer' = [ctimer EXCEPT ![a] = "armed"]
          /\ ws' = a

Connect(throws) ==
  /\ IF connectPromise # NoSlot
     THEN /\ ~throws
          /\ emitted' = <<>>
          /\ Step("connect", "same")
          /\ UNCHANGED <<ws, connectionAttempts, connectPromise, slotVars>>
     ELSE /\ FreeSlots # {}
          /\ connectionAttempts < lim.count
          /\ Executor(NewSlot, throws)
          /\ emitted' = <<"connecting">>
          /\ Step("connect", IF throws THEN "threw" ELSE "opened")
  /\ wrote' = <<>>
  /\ closeReq' = <<>>
  /\ armedDelay' = 0
  /\ UNCHANGED <<connected, requestId, pendingRequests, reconnectTimer, timers, pingInterval,
                 sincePong, challengeNonce, reqVars>>
  /\ UNCHANGED <<configToken, deviceToken, eventHandlers>>

(***************************************************************************)
(* the connection timeout of slot a fires                                  *)
(***************************************************************************)
ConnectTimeout(a) ==
  /\ ctimer[a] = "armed"
  /\ ctimer' = [ctimer EXCEPT ![a] = "none"]
  /\ IF ws # NoSlot /\ rs[ws] # "OPEN"
     THEN LET s == SchedN(Handlers(a), reconnectTimer, connectionAttempts) IN
          /\ rs' = CloseRs(rs, ws)
          /\ closeReq' = CloseCall(rs, ws, 1005)
          /\ connectPromise' = NoSlot
          /\ prom' = RejectProm(prom, a)
          /\ reconnectTimer' = s.timer
          /\ timers' = timers + s.armed
          /\ armedDelay' = s.delay
          /\ emitted' = s.em
          /\ Step("connectTimeout", "closed")
     ELSE /\ UNCHANGED <<rs, connectPromise, prom, reconnectTimer, timers>>
          /\ closeReq' = <<>>
          /\ armedDelay' = 0
          /\ emitted' = <<>>
          /\ Step("connectTimeout", "skipped")
  /\ wrote' = <<>>
  /\ UNCHANGED <<ws, connected, requestId, pendingRequests, pingInterval, sincePong,
                 connectionAttempts, challengeNonce, retry, reqVars>>
  /\ UNCHANGED <<configToken, deviceToken, eventHandlers>>

(***************************************************************************)
(* transport events of the socket of slot a                                *)
(***************************************************************************)
SockOpen(a) ==
  /\ rs[a] = "CONNECTING"
  /\ rs' = [rs EXCEPT ![a] = "OPEN"]
  /\ ctimer' = [ctimer EXCEPT ![a] = "none"]
  /\ emitted' = <<"socket_open">>
  /\ wrote' = <<>>
  /\ closeReq' = <<>>
  /\ armedDelay' = 0
  /\ Step("open", "none")
  /\ UNCHANGED <<clientVars, prom, retry, reqVars>>

\* the close event, preceded in the same task by the error event when the
\* connection failed
SockClose(a, withError) ==
  /\ rs[a] \in {"CONNECTING", "OPEN", "CLOSING"}
  /\ LET s == SchedN(Handlers(a), reconnectTimer, connectionAttempts) IN
     /\ rs' = [rs EXCEPT ![a] = "CLOSED"]
     /\ ctimer' = [ctimer EXCEPT ![a] = "none"]
     /\ connected' = FALSE
     /\ connectPromise' = NoSlot
     /\ challengeNonce' = 0
     /\ pingInterval' = stopPing
     /\ sincePong' = 0
     /\ prom' = RejectProm(prom, a)
     /\ reconnectTimer' = s.timer
     /\ timers' = timers + s.armed
     /\ armedDelay' = s.delay
     /\ emitted' = (IF withError THEN <<"error">> ELSE <<>>) \o <<"disconnected">> \o s.em
  /\ wrote' = <<>>
  /\ closeReq' = <<>>
  /\ last' = [op |-> "close", r |-> IF prom[a] = "resolved" THEN "authenticated" ELSE "early",
              \* isConnected() as a 'disconnected' handler sees it
              sendOk |-> IsConn(ws, rs', FlagAtEmit("close", connected))]
  /\ lim' = lim
  /\ calls' = Dispatch(emitted', ClientData)
  /\ UNCHANGED <<ws, requestId, pendingRequests, connectionAttempts,
                 retry, reqVars>>
  /\ UNCHANGED <<configToken, deviceToken, eventHandlers>>

(***************************************************************************)
(* handleMessage(data, resolve, reject), called by the onmessage handler   *)
(* of the socket of slot a with the resolve and reject of that slot.  The  *)
(* browser delivers messages only to a socket in the OPEN state.           *)
(***************************************************************************)
\* ws.send of sendConnectRequest: this.ws is whatever socket the client holds
\* now; null or a connecting socket throws (caught by onmessage), a closing or
\* closed socket drops the frame
WsSend(frame) == IF ws # NoSlot /\ rs[ws] = "OPEN" THEN <<<<ws, frame>>>> ELSE <<>>

Nonces == {1}

\* an auth object that gets both keys
AuthBoth(token, storedToken) == [token |-> token, deviceToken |-> storedToken]

\* the auth object sendConnectRequest builds: 0 stands for an absent key
Auth(token, storedToken) ==
  IF token # 0 THEN [token |-> token, deviceToken |-> 0]
  ELSE IF storedToken # 0 THEN [token |-> 0, deviceToken |-> storedToken]
  ELSE [token |-> 0, deviceToken |-> 0]

ConnectFrame == [method |-> "connect", auth |-> Auth(configToken, deviceToken)]

\* a counter that starts again after two ids
NextIdWraps(n) == (n % 2) + 1

\* nextId(): ++this.requestId, the part of the id that tells two ids apart
NextId(n) == n + 1

\* connect.challenge: store the nonce and send the connect request
Challenge(a, nonce) ==
  /\ rs[a] = "OPEN"
  /\ requestId < MaxReq
  /\ challengeNonce' = nonce
  /\ emitted' = <<"challenge_received">>
  /\ requestId' = NextId(requestId)
  /\ pendingRequests' = pendingRequests \cup {NextId(requestId)}
  /\ rkind' = [rkind EXCEPT ![NextId(requestId)] = "connect"]
  /\ wrote' = WsSend(ConnectFrame)
  /\ closeReq' = <<>>
  /\ armedDelay' = 0
  /\ Step("challenge", IF ws = NoSlot \/ rs[ws] = "CONNECTING" THEN "threw" ELSE "sent")
  /\ UNCHANGED <<ws, connected, reconnectTimer, timers, pingInterval, sincePong,
                 connectionAttempts, connectPromise, slotVars,
                 rprom, rtimer, rsettle, rremoved>>
  /\ UNCHANGED <<configToken, deviceToken, eventHandlers>>

\* data.error of a res frame: what the server put in it ("none": key absent)
ServerError == [code |-> "E_SERVER", message |-> "server message"]

NoError == [code |-> "none", message |-> "none"]

\* the "connect error" branch: new Error(error.message || error.code || 'Authentication failed')
ConnectBranchError(err) ==
  [message |-> IF err.message # "none" THEN err.message
               ELSE IF err.code # "none" THEN err.code ELSE "Authentication failed",
   code |-> "none"]

\* the regular branch: new Error(error?.message || 'Request failed'), error.code = error?.code
RequestBranchError(err) ==
  [message |-> IF err.message # "none" THEN err.message ELSE "Request failed",
   code |-> err.code]

\* the Error object a request was rejected with, by the branch that rejected it:
\* a res with ok false and an error object takes the "connect error" branch, one
\* without an error object the regular branch
ErrorOf(outcome) ==
  CASE outcome = "rej_error" -> ConnectBranchError(ServerError)
    [] outcome = "rej_failed" -> RequestBranchError(NoError)
    [] outcome = "rej_timeout" -> [message |-> "Request timeout", code |-> "none"]
    [] OTHER -> NoError

\* ids a response frame can carry: 0 stands for an id the client never issued
ResIds == {0} \cup {r \in ReqIds : rkind[r] # "none"}

\* a response handler that calls the callbacks and forgets pendingRequests.delete
SettleNoDelete(id, outcome) ==
  IF id \in pendingRequests
  THEN /\ UNCHANGED <<pendingRequests, rremoved>>
       /\ IF rkind[id] = "send"
          THEN /\ rprom' = [rprom EXCEPT ![id] = IF @ = "pending" THEN outcome ELSE @]
               /\ rsettle' = [rsettle EXCEPT ![id] = Min(@ + 1, 2)]
          ELSE UNCHANGED <<rprom, rsettle>>
  ELSE UNCHANGED <<pendingRequests, rremoved, rprom, rsettle>>

\* a handler that fails every request in the map when one of them fails
SettleEvery(id, outcome) ==
  IF id \in pendingRequests
  THEN /\ pendingRequests' = {}
       /\ rremoved' = [r \in AllReqs |-> IF r \in pendingRequests THEN rremoved[r] + 1
                                         ELSE rremoved[r]]
       /\ rprom' = [r \in AllReqs |-> IF r \in pendingRequests /\ rprom[r] = "pending"
                                      THEN outcome ELSE rprom[r]]
       /\ rsettle' = [r \in AllReqs |-> IF r \in pendingRequests THEN Min(rsettle[r] + 1, 2)
                                        ELSE rsettle[r]]
  ELSE UNCHANGED <<pendingRequests, rremoved, rprom, rsettle>>

\* a handler that calls the callbacks of a request whose entry is gone
SettleUntracked(id, outcome) ==
  IF id \in ReqIds /\ rkind[id] = "send"
  THEN /\ pendingRequests' = pendingRequests \ {id}
       /\ rremoved' = [rremoved EXCEPT ![id] = IF id \in pendingRequests THEN @ + 1 ELSE @]
       /\ rprom' = [rprom EXCEPT ![id] = IF @ = "pending" THEN outcome ELSE @]
       /\ rsettle' = [rsettle EXCEPT ![id] = Min(@ + 1, 2)]
  ELSE UNCHANGED <<pendingRequests, rremoved, rprom, rsettle>>

\* pendingRequests.delete(id) followed by pending.resolve / pending.reject: the
\* callbacks of a connect request do nothing, those of send() settle its promise
Settle(id, outcome) ==
  IF id \in pendingRequests
  THEN /\ pendingRequests' = pendingRequests \ {id}
       /\ rremoved' = [rremoved EXCEPT ![id] = @ + 1]
       /\ IF rkind[id] = "send"
          THEN /\ rprom' = [rprom EXCEPT ![id] = IF @ = "pending" THEN outcome ELSE @]
               /\ rsettle' = [rsettle EXCEPT ![id] = @ + 1]
          ELSE UNCHANGED <<rprom, rsettle>>
  ELSE UNCHANGED <<pendingRequests, rremoved, rprom, rsettle>>

\* payload.auth?.deviceToken of a hello-ok: 0 when the payload carries none
PayloadTokens == {0} \cup Tokens

\* a hello-ok branch that stores whatever the payload has, nothing included
StoreAlways(stored, tok) == tok

\* if (data.payload.auth?.deviceToken) localStorage.setItem(..., deviceToken)
StoreToken(stored, tok) == IF tok # 0 THEN tok ELSE stored

\* res with payload.type = 'hello-ok'
Hello(a, id, tok) ==
  /\ rs[a] = "OPEN"
  /\ id \in ResIds
  /\ tok \in PayloadTokens
  /\ connected' = TRUE
  /\ connectionAttempts' = 0
  /\ deviceToken' = StoreToken(deviceToken, tok)
  /\ UNCHANGED <<configToken, eventHandlers>>
  /\ pingInterval' = TRUE          \* startPing
  /\ sincePong' = 0
  /\ emitted' = <<"connected">>
  /\ calls' = Dispatch(emitted', ClientData)
  /\ Settle(id, "resolved")
  /\ prom' = ResolveProm(prom, a)
  /\ wrote' = <<>>
  /\ closeReq' = <<>>
  /\ armedDelay' = 0
  /\ last' = [op |-> "hello", r |-> IF prom[a] = "pending" THEN "resolved" ELSE "none",
              tok |-> tok,
              \* isConnected() as a 'connected' handler sees it
              sendOk |-> IsConn(ws, rs, FlagAtEmit("hello", connected))]
  /\ lim' = lim
  /\ UNCHANGED <<ws, requestId, reconnectTimer, timers, challengeNonce, connectPromise,
                 rs, ctimer, retry, rkind, rtimer>>

\* res with ok false and an error object: the "connect error" branch
ErrorRes(a, id) ==
  /\ rs[a] = "OPEN"
  /\ id \in ResIds
  /\ LET s == SchedN(Handlers(a), reconnectTimer, connectionAttempts) IN
     /\ Settle(id, "rej_error")
     /\ prom' = RejectProm(prom, a)
     /\ reconnectTimer' = s.timer
     /\ timers' = timers + s.armed
     /\ armedDelay' = s.delay
     /\ emitted' = s.em
  /\ wrote' = <<>>
  /\ closeReq' = <<>>
  /\ StepId("errorRes", IF prom[a] = "pending" THEN "rejected" ELSE "none", id)
  /\ UNCHANGED <<ws, connected, requestId, pingInterval, sincePong, connectionAttempts,
                 challengeNonce, connectPromise, rs, ctimer, retry, rkind, rtimer>>
  /\ UNCHANGED <<configToken, deviceToken, eventHandlers>>

\* any other res: ok true, or ok false without an error object
Response(a, id, ok) ==
  /\ rs[a] = "OPEN"
  /\ id \in ResIds
  /\ IF id # 0 THEN Settle(id, IF ok THEN "resolved" ELSE "rej_failed")
     ELSE UNCHANGED <<pendingRequests, rremoved, rprom, rsettle>>
  /\ emitted' = <<>>
  /\ wrote' = <<>>
  /\ closeReq' = <<>>
  /\ armedDelay' = 0
  /\ StepId("response", IF id \in pendingRequests THEN "matched" ELSE "dropped", id)
  /\ UNCHANGED <<ws, connected, requestId, reconnectTimer, timers, pingInterval, sincePong,
                 connectionAttempts, challengeNonce, connectPromise, slotVars,
                 rkind, rtimer>>
  /\ UNCHANGED <<configToken, deviceToken, eventHandlers>>

EventNames == {"cron.job.started", "tick"}

Alias(name) == IF name = "cron.job.started" THEN <<"job_started">> ELSE <<>>

\* an events branch that emits the alias only
EventEmitsAlias(name) == Alias(name)

\* this.emit(data.event, data.payload), then the alias of the special events
EventEmits(name) == <<name>> \o Alias(name)

\* data.payload of an event frame
Payloads == {7, 8}

\* an event frame other than connect.challenge
Event(a, name, payload) ==
  /\ rs[a] = "OPEN"
  /\ name \in EventNames /\ payload \in Payloads
  /\ emitted' = EventEmits(name)
  /\ calls' = Dispatch(emitted', payload)
  /\ wrote' = <<>>
  /\ closeReq' = <<>>
  /\ armedDelay' = 0
  /\ last' = [op |-> "event", r |-> name, payload |-> payload]
  /\ lim' = lim
  /\ UNCHANGED <<clientVars, slotVars, reqVars>>

\* ms after the latest tick of the interval at which a pong can arrive
PongOffsets == {5000, 15000, 20000}

\* pong: this.lastPong = Date.now(), off ms after the latest tick
Pong(a, off) ==
  /\ rs[a] = "OPEN"
  /\ off \in PongOffsets
  /\ sincePong' = IF pingInterval THEN 0 - off ELSE sincePong
  /\ emitted' = <<>>
  /\ wrote' = <<>>
  /\ closeReq' = <<>>
  /\ armedDelay' = 0
  /\ Step("pong", "none")
  /\ UNCHANGED <<ws, connected, requestId, pendingRequests, reconnectTimer, timers, pingInterval,
                 connectionAttempts, challengeNonce, connectPromise, slotVars, reqVars>>
  /\ UNCHANGED <<configToken, deviceToken, eventHandlers>>

(***************************************************************************)
(* send(method, params) and its 30s timeout                                *)
(***************************************************************************)
\* a guard that looks at the socket only
SendGuardSocketOnly == ws # NoSlot /\ rs[ws] = "OPEN"

\* if (!this.connected || !this.ws || this.ws.readyState !== WebSocket.OPEN)
SendGuard == connected /\ ws # NoSlot /\ rs[ws] = "OPEN"

Send ==
  /\ emitted' = <<>>
  /\ IF ~SendGuard
     THEN /\ Step("send", "not_connected")
          /\ wrote' = <<>>
          /\ UNCHANGED <<requestId, pendingRequests, reqVars>>
     ELSE /\ requestId < MaxReq
          /\ requestId' = NextId(requestId)
          /\ pendingRequests' = pendingRequests \cup {NextId(requestId)}
          /\ rkind' = [rkind EXCEPT ![NextId(requestId)] = "send"]
          /\ rprom' = [rprom EXCEPT ![NextId(requestId)] = "pending"]
          /\ rtimer' = [rtimer EXCEPT ![NextId(requestId)] = "armed"]
          /\ wrote' = <<<<ws, "req">>>>
          /\ Step("send", "accepted")
          /\ UNCHANGED <<rsettle, rremoved>>
  /\ closeReq' = <<>>
  /\ armedDelay' = 0
  /\ UNCHANGED <<ws, connected, reconnectTimer, timers, pingInterval, sincePong,
                 connectionAttempts, challengeNonce, connectPromise, slotVars>>
  /\ UNCHANGED <<configToken, deviceToken, eventHandlers>>

RequestTimeout(id) ==
  /\ rtimer[id] = "armed"
  /\ rtimer' = [rtimer EXCEPT ![id] = "none"]
  /\ Settle(id, "rej_timeout")
  /\ emitted' = <<>>
  /\ wrote' = <<>>
  /\ closeReq' = <<>>
  /\ armedDelay' = 0
  /\ StepId("requestTimeout", IF id \in pendingRequests THEN "rejected" ELSE "none", id)
  /\ UNCHANGED <<ws, connected, requestId, reconnectTimer, timers, pingInterval, sincePong,
                 connectionAttempts, challengeNonce, connectPromise, slotVars, rkind>>
  /\ UNCHANGED <<configToken, deviceToken, eventHandlers>>

(***************************************************************************)
(* the interval of startPing.  A tick comes pingEvery ms after the one     *)
(* before it (the first one pingEvery ms after startPing), so Date.now() - *)
(* lastPong at a tick is sincePong + pingEvery.  Once that is beyond       *)
(* pongTimeout it stays beyond it until lastPong is rewritten, and the     *)
(* model stops adding to it.                                               *)
(***************************************************************************)
pingEvery == 25000

pongTimeout == 60000

\* a check that counts exactly 60s as overdue
PongOverdueInclusive(elapsed) == elapsed >= pongTimeout

\* Date.now() - this.lastPong > 60000 (lastPong is set whenever the interval is)
PongOverdue(elapsed) == elapsed > pongTimeout

PingTick ==
  /\ pingInterval
  /\ emitted' = <<>>
  /\ LET elapsed == sincePong + pingEvery IN
     /\ sincePong' = IF PongOverdue(sincePong) THEN sincePong ELSE elapsed
     /\ IF ws # NoSlot /\ rs[ws] = "OPEN"
        THEN IF PongOverdue(elapsed)
             THEN /\ rs' = CloseRs(rs, ws)
                  /\ closeReq' = CloseCall(rs, ws, 4000)
                  /\ wrote' = <<>>
                  /\ Step("ping", "closed")
             ELSE /\ wrote' = <<<<ws, "ping">>>>
                  /\ closeReq' = <<>>
                  /\ Step("ping", "probe")
                  /\ UNCHANGED rs
        ELSE /\ wrote' = <<>>
             /\ closeReq' = <<>>
             /\ Step("ping", "idle")
             /\ UNCHANGED rs
  /\ armedDelay' = 0
  /\ UNCHANGED <<ws, connected, requestId, pendingRequests, reconnectTimer, timers, pingInterval,
                 connectionAttempts, challengeNonce, connectPromise,
                 prom, ctimer, retry, reqVars>>
  /\ UNCHANGED <<configToken, deviceToken, eventHandlers>>

(***************************************************************************)
(* disconnect()                                                            *)
(***************************************************************************)
\* this.pendingRequests.clear(): the entries go, their callbacks are not called
DisconnectPending(pr) == {}

\* a disconnect() that announces itself
DisconnectEmitsEvent == <<"disconnected">>

\* disconnect() calls emit nowhere
DisconnectEmitted == <<>>

Disconnect ==
  /\ pingInterval' = stopPing
  /\ sincePong' = 0
  /\ connectionAttempts' = 0
  /\ reconnectTimer' = FALSE
  /\ timers' = IF reconnectTimer THEN timers - 1 ELSE timers
  /\ IF ws # NoSlot
     THEN /\ rs' = CloseRs(rs, ws)
          /\ closeReq' = CloseCall(rs, ws, 1000)
     ELSE /\ closeReq' = <<>>
          /\ UNCHANGED rs
  /\ ws' = NoSlot
  /\ connected' = FALSE
  /\ connectPromise' = NoSlot
  /\ pendingRequests' = DisconnectPending(pendingRequests)
  /\ rremoved' = [r \in AllReqs |->
                    IF r \in pendingRequests \ DisconnectPending(pendingRequests)
                    THEN rremoved[r] + 1 ELSE rremoved[r]]
  /\ emitted' = DisconnectEmitted
  /\ wrote' = <<>>
  /\ armedDelay' = 0
  /\ Step("disconnect", getConnectionState)
  /\ UNCHANGED <<requestId, challengeNonce, prom, ctimer, retry,
                 rkind, rprom, rtimer, rsettle>>
  /\ UNCHANGED <<configToken, deviceToken, eventHandlers>>

(***************************************************************************)
(* scheduleReconnect(), called by a collaborator, and its timer callback   *)
(***************************************************************************)
ScheduleReconnect ==
  /\ LET s == SchedN(1, reconnectTimer, connectionAttempts) IN
     /\ reconnectTimer' = s.timer
     /\ timers' = timers + s.armed
     /\ armedDelay' = s.delay
     /\ emitted' = s.em
     /\ Step("scheduleReconnect", IF reconnectTimer THEN "noop"
             ELSE IF s.timer THEN "armed" ELSE "max")
  /\ wrote' = <<>>
  /\ closeReq' = <<>>
  /\ UNCHANGED <<ws, connected, requestId, pendingRequests, pingInterval, sincePong,
                 connectionAttempts, challengeNonce, connectPromise, slotVars, reqVars>>
  /\ UNCHANGED <<configToken, deviceToken, eventHandlers>>

\* the timer callback: this.connect().catch(... this.scheduleReconnect() ...).
\* The handler is attached to the promise connect() returns; on a promise that
\* is already rejected it runs right away.
ReconnectFire(throws) ==
  /\ timers > 0
  /\ IF connectPromise # NoSlot
     THEN /\ ~throws
          /\ UNCHANGED <<ws, connectionAttempts, connectPromise, rs, prom, ctimer>>
          /\ IF prom[connectPromise] = "pending"
             THEN /\ retry[connectPromise] < lim.retry
                  /\ retry' = [retry EXCEPT ![connectPromise] = @ + 1]
             ELSE UNCHANGED retry
          /\ LET s == SchedN(IF prom[connectPromise] = "rejected" THEN 1 ELSE 0,
                             FALSE, connectionAttempts) IN
             /\ reconnectTimer' = s.timer
             /\ timers' = timers - 1 + s.armed
             /\ armedDelay' = s.delay
             /\ emitted' = s.em
          /\ Step("reconnect", "same")
     ELSE /\ FreeSlots # {}
          /\ connectionAttempts < lim.count
          /\ LET s == SchedN(IF throws THEN 1 ELSE 0, FALSE, connectionAttempts + 1) IN
             /\ connectionAttempts' = connectionAttempts + 1
             /\ connectPromise' = NewSlot
             /\ retry' = [retry EXCEPT ![NewSlot] = IF throws THEN 0 ELSE 1]
             /\ prom' = [prom EXCEPT ![NewSlot] = IF throws THEN "rejected" ELSE "pending"]
             /\ rs' = [rs EXCEPT ![NewSlot] = IF throws THEN @ ELSE "CONNECTING"]
             /\ ctimer' = [ctimer EXCEPT ![NewSlot] = IF throws THEN "none" ELSE "armed"]
             /\ ws' = IF throws THEN ws ELSE NewSlot
             /\ reconnectTimer' = s.timer
             /\ timers' = timers - 1 + s.armed
             /\ armedDelay' = s.delay
             /\ emitted' = <<"connecting">> \o s.em
          /\ Step("reconnect", IF throws THEN "threw" ELSE "opened")
  /\ wrote' = <<>>
  /\ closeReq' = <<>>
  /\ UNCHANGED <<connected, requestId, pendingRequests, pingInterval, sincePong,
                 challengeNonce, reqVars>>
  /\ UNCHANGED <<configToken, deviceToken, eventHandlers>>

DispatcherFrame ==
  /\ emitted' = <<>>
  /\ wrote' = <<>>
  /\ closeReq' = <<>>
  /\ armedDelay' = 0
  /\ lim' = lim
  /\ UNCHANGED <<ws, connected, requestId, pendingRequests, reconnectTimer, timers,
                 pingInterval, sincePong, configToken, deviceToken, connectionAttempts,
                 challengeNonce, connectPromise, slotVars, reqVars>>

On(topic, h) ==
  /\ topic \in Topics /\ h \in HandlerIds
  /\ eventHandlers' = [eventHandlers EXCEPT ![topic] = SetAdd(@, h)]
  /\ calls' = <<>>
  /\ last' = [op |-> "on", r |-> topic, h |-> h]
  /\ DispatcherFrame

Off(topic, h) ==
  /\ topic \in Topics /\ h \in HandlerIds
  /\ eventHandlers' = [eventHandlers EXCEPT ![topic] = SetDelete(@, h)]
  /\ calls' = <<>>
  /\ last' = [op |-> "off", r |-> topic, h |-> h]
  /\ DispatcherFrame

\* emit(topic, data) where the handlers in throwers throw
Emit(topic, data, throwers) ==
  /\ topic \in EmitTopics /\ throwers \subseteq HandlerIds
  /\ LET run == EmitRun(topic, data, throwers) IN
     /\ calls' = run.calls
     /\ last' = [op |-> "emit", r |-> IF run.threw THEN "threw" ELSE "returned",
                 topic |-> topic, data |-> data, throwers |-> throwers]
  /\ eventHandlers' = eventHandlers
  /\ DispatcherFrame

(***************************************************************************)
(* Spec: the connection life cycle and the reconnection scheduler.         *)
(***************************************************************************)
Next ==
  \/ \E throws \in BOOLEAN : Connect(throws)
  \/ \E a \in Slots : ConnectTimeout(a)
  \/ \E a \in Slots : SockOpen(a)
  \/ \E a \in Slots, withError \in BOOLEAN : SockClose(a, withError)
  \/ \E a \in Slots, nonce \in Nonces : Challenge(a, nonce)
  \/ \E a \in Slots, id \in 0..MaxReq, tok \in PayloadTokens : Hello(a, id, tok)
  \/ \E a \in Slots, id \in 0..MaxReq : ErrorRes(a, id)
  \/ Disconnect
  \/ ScheduleReconnect
  \/ \E throws \in BOOLEAN : ReconnectFire(throws)

Spec == Init /\ [][Next]_vars

(***************************************************************************)
(* SpecReq: the request correlator on top of the life cycle.               *)
(***************************************************************************)
NextReq ==
  \/ Connect(FALSE)
  \/ \E a \in Slots : ConnectTimeout(a)
  \/ \E a \in Slots : SockOpen(a)
  \/ \E a \in Slots : SockClose(a, FALSE)
  \/ \E a \in Slots, nonce \in Nonces : Challenge(a, nonce)
  \/ \E a \in Slots, id \in 0..MaxReq, tok \in PayloadTokens : Hello(a, id, tok)
  \/ \E a \in Slots, id \in 0..MaxReq : ErrorRes(a, id)
  \/ \E a \in Slots, id \in 0..MaxReq, ok \in BOOLEAN : Response(a, id, ok)
  \/ Send
  \/ \E id \in ReqIds : RequestTimeout(id)
  \/ Disconnect

SpecReq == InitReq /\ [][NextReq]_vars

(***************************************************************************)
(* SpecSched: the reconnection scheduler, with room for the attempt        *)
(* counter to pass maxReconnectAttempts.                                   *)
(***************************************************************************)
InitSched ==
  /\ InitClient
  /\ lim = [slots |-> SchedSlots, reqs |-> 0, count |-> SchedCount,
            retry |-> SchedRetry, toks |-> 0]

NextSched ==
  \/ \E throws \in BOOLEAN : Connect(throws)
  \/ \E a \in Slots : ConnectTimeout(a)
  \/ \E a \in Slots : SockOpen(a)
  \/ \E a \in Slots : SockClose(a, FALSE)
  \/ \E a \in Slots : Hello(a, 0, 0)
  \/ \E a \in Slots : ErrorRes(a, 0)
  \/ Disconnect
  \/ ScheduleReconnect
  \/ \E throws \in BOOLEAN : ReconnectFire(throws)

SpecSched == InitSched /\ [][NextSched]_vars

(***************************************************************************)
(* SpecAuth: the handshake and the tokens.                                 *)
(***************************************************************************)
InitAuth ==
  /\ InitClient
  /\ lim = [slots |-> CorrSlots, reqs |-> AuthReqs, count |-> MaxCount,
            retry |-> MaxRetry, toks |-> AuthToks]

NextAuth ==
  \/ \E tok \in {0} \cup Tokens : Configure(tok)
  \/ Connect(FALSE)
  \/ \E a \in Slots : SockOpen(a)
  \/ \E a \in Slots : SockClose(a, FALSE)
  \/ \E a \in Slots, nonce \in Nonces : Challenge(a, nonce)
  \/ \E a \in Slots, id \in 0..MaxReq, tok \in PayloadTokens : Hello(a, id, tok)
  \/ \E a \in Slots, id \in 0..MaxReq : ErrorRes(a, id)
  \/ \E a \in Slots, id \in 0..MaxReq, ok \in BOOLEAN : Response(a, id, ok)
  \/ \E a \in Slots, name \in EventNames : Event(a, name, 7)
  \/ Disconnect

SpecAuth == InitAuth /\ [][NextAuth]_vars

(***************************************************************************)
(* SpecPing: the heartbeat and the event frames.                           *)
(***************************************************************************)
InitPing ==
  /\ InitClient
  /\ lim = [slots |-> PingSlots, reqs |-> 0, count |-> MaxCount,
            retry |-> MaxRetry, toks |-> 0]

NextPing ==
  \/ Connect(FALSE)
  \/ \E a \in Slots : ConnectTimeout(a)
  \/ \E a \in Slots : SockOpen(a)
  \/ \E a \in Slots : SockClose(a, FALSE)
  \/ \E a \in Slots : Hello(a, 0, 0)
  \/ \E a \in Slots, name \in EventNames : Event(a, name, 7)
  \/ \E a \in Slots, off \in PongOffsets : Pong(a, off)
  \/ PingTick
  \/ Disconnect

SpecPing == InitPing /\ [][NextPing]_vars

(***************************************************************************)
(* SpecEmit: the dispatcher.                                               *)
(***************************************************************************)
InitEmit ==
  /\ InitClient
  /\ lim = [slots |-> 0, reqs |-> 0, count |-> 0, retry |-> 0, toks |-> 0]

NextEmit ==
  \/ \E topic \in Topics, h \in HandlerIds : On(topic, h)
  \/ \E topic \in Topics, h \in HandlerIds : Off(topic, h)
  \/ \E topic \in EmitTopics, throwers \in SUBSET HandlerIds : Emit(topic, 7, throwers)

SpecEmit == InitEmit /\ [][NextEmit]_vars

(***************************************************************************)
(* SpecEvent: inbound event frames reaching the handlers collaborators     *)
(* registered.                                                             *)
(***************************************************************************)
InitEvent ==
  /\ InitClient
  /\ lim = [slots |-> EventSlots, reqs |-> EventReqs, count |-> MaxCount,
            retry |-> 0, toks |-> 0]

NextEvent ==
  \/ \E topic \in Topics, h \in 1..EventHandlers : On(topic, h)
  \/ \E topic \in Topics, h \in 1..EventHandlers : Off(topic, h)
  \/ Connect(FALSE)
  \/ \E a \in Slots : SockOpen(a)
  \/ \E a \in Slots : SockClose(a, FALSE)
  \/ \E a \in Slots, nonce \in Nonces : Challenge(a, nonce)
  \/ \E a \in Slots, name \in EventNames, payload \in Payloads : Event(a, name, payload)

SpecEvent == InitEvent /\ [][NextEvent]_vars

(***************************************************************************)
(* SpecFair: the client with its timers firing.  A timeout that is armed   *)
(* fires unless it is cleared first, and a socket on which close() was     *)
(* called gets its close event; nothing is assumed of the server.          *)
(***************************************************************************)
InitFair ==
  /\ InitClient
  /\ lim = [slots |-> FairSlots, reqs |-> FairReqs, count |-> MaxCount,
            retry |-> 0, toks |-> 0]

\* the close event that follows close()
CloseEvent(a) == rs[a] = "CLOSING" /\ SockClose(a, FALSE)

NextFair ==
  \/ Connect(FALSE)
  \/ \E a \in Slots : ConnectTimeout(a)
  \/ \E a \in Slots : SockOpen(a)
  \/ \E a \in Slots : SockClose(a, FALSE)
  \/ \E a \in Slots, nonce \in Nonces : Challenge(a, nonce)
  \/ \E a \in Slots, id \in 0..MaxReq : Hello(a, id, 0)
  \/ Send
  \/ \E id \in ReqIds : RequestTimeout(id)
  \/ Disconnect

TimersFire ==
  /\ \A a \in 1..FairSlots : WF_vars(ConnectTimeout(a))
  /\ \A a \in 1..FairSlots : WF_vars(CloseEvent(a))
  /\ \A id \in 1..FairReqs : WF_vars(RequestTimeout(id))

SpecFair == InitFair /\ [][NextFair]_vars /\ TimersFire

TypeOK ==
  /\ ws \in {NoSlot} \cup Slots
  /\ connectPromise \in {NoSlot} \cup Slots
  /\ requestId \in 0..MaxReq
  /\ pendingRequests \subseteq ReqIds
  /\ connectionAttempts \in 0..lim.count
  /\ timers \in 0..1
  /\ configToken \in {0} \cup Tokens
  /\ deviceToken \in {0} \cup Tokens
  /\ sincePong \in -20000..85000
  /\ \A a \in Slots : rs[a] \in {"NONE", "CONNECTING", "OPEN", "CLOSING", "CLOSED"}
  /\ ws # NoSlot => rs[ws] # "NONE"

(***************************************************************************)
(* C1: a connect() call made while the attempt of the socket the client    *)
(* holds is outstanding (its promise pending) opens no transport and       *)
(* returns the promise of that attempt.                                    *)
(***************************************************************************)
C1_SameInFlightPromise ==
  [][(last'.op \in {"connect", "reconnect"} /\ ws # NoSlot /\ prom[ws] = "pending")
       => (connectPromise' = ws /\ ws' = ws /\ rs' = rs /\ prom' = prom)]_vars

(***************************************************************************)
(* C2: at most one transport opened by the client is live (connecting or   *)
(* open) at any time.                                                      *)
(***************************************************************************)
C2_AtMostOneLive == Cardinality({a \in Slots : Live(a)}) <= 1

(***************************************************************************)
(* C3: a request send() accepted gets exactly one terminal outcome: its    *)
(* resolve/reject is called at most once, and once its entry has left the  *)
(* map and its timeout has fired its promise is settled.                   *)
(***************************************************************************)
C3_ExactlyOneOutcome ==
  \A r \in ReqIds :
    rkind[r] = "send" =>
      /\ rsettle[r] <= 1
      /\ (r \notin pendingRequests /\ rtimer[r] = "none") => rprom[r] # "pending"

(***************************************************************************)
(* C4: disconnect() rejects every request pending at the time of the call. *)
(***************************************************************************)
C4_DisconnectRejectsPending ==
  [][last'.op = "disconnect"
       => \A r \in pendingRequests :
            rkind[r] = "send" => rprom'[r] \notin {"pending", "resolved"}]_vars

C6_SendFailsFast ==
  [][(last'.op = "send" /\ getConnectionState # "connected")
       => /\ last'.r = "not_connected"
          /\ wrote' = <<>>
          /\ UNCHANGED <<requestId, pendingRequests, reqVars>>]_vars

C6_Witness ==
  /\ last.op = "send" /\ last.r = "not_connected"
  /\ getConnectionState = "authenticating"
  /\ pendingRequests # {}

(***************************************************************************)
(* C7: disconnect() can be called in every state and leaves the client     *)
(* Disconnected: state 'disconnected', not connected, no connect promise,  *)
(* no heartbeat timer, no reconnect timer, empty pending-request map, and  *)
(* the transport it held, if live, closing with code 1000.                 *)
(***************************************************************************)
C7_DisconnectAlwaysSucceeds ==
  /\ ENABLED Disconnect
  /\ last.op = "disconnect" =>
       /\ getConnectionState = "disconnected"
       /\ ~isConnected
       /\ ws = NoSlot
       /\ connectPromise = NoSlot
       /\ ~pingInterval
       /\ ~reconnectTimer
       /\ pendingRequests = {}
       /\ last.r \in {"connecting", "authenticating", "connected"} =>
            /\ Len(closeReq) = 1
            /\ closeReq[1][2] = 1000
            /\ rs[closeReq[1][1]] = "CLOSING"

C7_Witness ==
  /\ last.op = "disconnect" /\ last.r = "connected"
  /\ closeReq # <<>>
  /\ \E r \in ReqIds : rkind[r] = "connect" /\ rremoved[r] = 1

(***************************************************************************)
(* C8: disconnect() called while Disconnected emits no event, closes and   *)
(* writes nothing, and a disconnect() that follows a disconnect() leaves   *)
(* the client exactly as the first one left it.                            *)
(***************************************************************************)
C8_DisconnectWhileDisconnected ==
  [][/\ (last'.op = "disconnect" /\ getConnectionState = "disconnected")
          => (emitted' = <<>> /\ wrote' = <<>> /\ closeReq' = <<>> /\ rs' = rs
              /\ GetState(ws', rs', connected') = "disconnected")
     /\ (last'.op = "disconnect" /\ last.op = "disconnect")
          => (emitted' = <<>> /\ UNCHANGED <<clientVars, slotVars, reqVars>>)]_vars

C8_Witness ==
  /\ last.op = "disconnect" /\ last.r = "disconnected"
  /\ \E a \in Slots : rs[a] = "CLOSED" /\ prom[a] = "rejected"

(***************************************************************************)
(* C9: when the transport the client holds closes after authentication     *)
(* (the client has not called disconnect()), a disconnected event is       *)
(* emitted and a reconnection attempt is scheduled.                        *)
(***************************************************************************)
C9_CloseSchedulesReconnect ==
  [][(/\ ws # NoSlot /\ connected /\ prom[ws] = "resolved"
      /\ rs[ws] \in {"OPEN", "CLOSING"} /\ rs'[ws] = "CLOSED")
       => /\ \E i \in 1..Len(emitted') : emitted'[i] = "disconnected"
          /\ reconnectTimer']_vars

(***************************************************************************)
(* C10: after the client's own disconnect() (it holds no transport) no     *)
(* reconnect timer is armed until a collaborator calls connect() or        *)
(* scheduleReconnect() again.                                              *)
(***************************************************************************)
C10_NoReconnectAfterDisconnect ==
  [][(ws = NoSlot /\ ~reconnectTimer /\ last'.op # "scheduleReconnect")
       => ~reconnectTimer']_vars

(***************************************************************************)
(* C11: once maxReconnectAttempts attempts have failed no reconnect timer  *)
(* is armed any more, and the terminal max_reconnects event fires once: no *)
(* step emits it twice, and a step that follows one that emitted it, the   *)
(* counter still at its maximum, does not emit it again.                   *)
(***************************************************************************)
C11_TerminalEventOnce ==
  [][/\ armedDelay' # 0 => connectionAttempts' < maxReconnectAttempts
     /\ Cardinality({i \in 1..Len(emitted') : emitted'[i] = "max_reconnects"}) <= 1
     /\ ((\E i \in 1..Len(emitted) : emitted[i] = "max_reconnects")
           /\ connectionAttempts' >= maxReconnectAttempts)
          => \A i \in 1..Len(emitted') : emitted'[i] # "max_reconnects"]_vars

(***************************************************************************)
(* C12: at most one reconnect timer is pending, and it is the one the      *)
(* client holds; scheduleReconnect() called while a timer is armed changes *)
(* nothing; a timer that fires is used up by one connect() invocation,     *)
(* which starts at most one attempt.                                       *)
(***************************************************************************)
C12_OneReconnectTimer ==
  /\ [](timers <= 1 /\ (reconnectTimer <=> timers = 1))
  /\ [][/\ (last'.op = "scheduleReconnect" /\ reconnectTimer)
            => /\ UNCHANGED <<clientVars, slotVars, reqVars>>
               /\ emitted' = <<>> /\ armedDelay' = 0 /\ last'.r = "noop"
        /\ last'.op = "reconnect"
            => /\ timers = 1
               /\ connectionAttempts' - connectionAttempts \in {0, 1}
               /\ Cardinality({i \in 1..Len(emitted') : emitted'[i] = "connecting"})
                    = connectionAttempts' - connectionAttempts]_vars

C12_Witness ==
  /\ last.op = "scheduleReconnect" /\ last.r = "noop"
  /\ timers = 1
  /\ connectionAttempts > 0

(***************************************************************************)
(* C13: the reconnect delay is min(1000 * 2^attempt, 30000) ms: a timer    *)
(* armed at attempt count 0..4 gets 1000, 2000, 4000, 8000, 16000, and the *)
(* formula yields 30000 for every count from 5 on.                         *)
(***************************************************************************)
C13_BackoffDelay ==
  /\ [](\A n \in 5..(SchedCount + 4) : Delay(n) = 30000)
  /\ [][/\ (reconnectTimer' /\ (~reconnectTimer \/ last'.op = "reconnect"))
            => armedDelay' # 0
        /\ armedDelay' # 0
            => /\ connectionAttempts' \in 0..4
               /\ armedDelay' = <<1000, 2000, 4000, 8000, 16000>>[connectionAttempts' + 1]]_vars

C13_Witness ==
  /\ armedDelay = 16000
  /\ connectionAttempts = 4
  /\ reconnectTimer

(***************************************************************************)
(* C14, as stated: a tick of the heartbeat that finds the socket open and  *)
(* 60s or more gone since the last pong closes the socket with code 4000   *)
(* and sends no probe.                                                     *)
(***************************************************************************)
C14_ClosesAtSixtySeconds ==
  [][(last'.op = "ping" /\ ws # NoSlot /\ rs[ws] = "OPEN"
        /\ sincePong + pingEvery >= pongTimeout)
       => (closeReq' = <<<<ws, 4000>>>> /\ wrote' = <<>>)]_vars

(***************************************************************************)
(* C14, amended: a tick that finds the socket open and more than 60s gone  *)
(* since the last pong closes the socket with code 4000 and sends no       *)
(* probe; at 60s or less it sends a probe and closes nothing; a tick that  *)
(* finds the socket not open (the heartbeat has closed it) neither closes  *)
(* nor writes, and no other step closes with code 4000.                    *)
(***************************************************************************)
C14_HeartbeatClose ==
  [][/\ last'.op = "ping" =>
          IF ws # NoSlot /\ rs[ws] = "OPEN"
          THEN IF sincePong + pingEvery > pongTimeout
               THEN /\ closeReq' = <<<<ws, 4000>>>> /\ wrote' = <<>>
                    /\ rs'[ws] = "CLOSING"
               ELSE /\ closeReq' = <<>> /\ wrote' = <<<<ws, "ping">>>>
                    /\ rs' = rs
          ELSE closeReq' = <<>> /\ wrote' = <<>> /\ rs' = rs
     /\ last'.op # "ping" => \A i \in 1..Len(closeReq') : closeReq'[i][2] # 4000]_vars

C14_Witness ==
  /\ last.op = "ping" /\ last.r = "idle"
  /\ ws # NoSlot /\ rs[ws] = "CLOSING"
  /\ connected /\ pingInterval
  /\ sincePong > pongTimeout

(***************************************************************************)
(* C15: the heartbeat is active only while the client is Connected: an     *)
(* armed heartbeat timer implies that getConnectionState() is 'connected'. *)
(***************************************************************************)
C15_HeartbeatOnlyWhileConnected == pingInterval => getConnectionState = "connected"

(***************************************************************************)
(* C16: the connect.challenge event makes the client send the connect      *)
(* request and settles nothing; the hello-ok response resolves the pending *)
(* connect() promise of its socket, sets connected (the state is           *)
(* 'connected' when the socket is the one the client holds) and starts the *)
(* heartbeat; nothing but a hello-ok resolves a connect() promise.         *)
(***************************************************************************)
C16_HelloResolvesConnect ==
  [][/\ last'.op = "challenge"
          => /\ prom' = prom /\ connected' = connected
             /\ (ws # NoSlot /\ rs[ws] = "OPEN") => wrote' = <<<<ws, ConnectFrame>>>>
     /\ last'.op = "hello"
          => /\ connected' /\ pingInterval' /\ sincePong' = 0
             /\ emitted' = <<"connected">>
             /\ \A a \in Slots : prom'[a] # prom[a] => prom'[a] = "resolved"
             /\ last'.r = "resolved" =>
                  \E a \in Slots : prom[a] = "pending" /\ prom'[a] = "resolved"
             /\ (ws # NoSlot /\ rs[ws] = "OPEN")
                  => GetState(ws', rs', connected') = "connected"
     /\ \A a \in Slots :
          (prom[a] # "resolved" /\ prom'[a] = "resolved")
            => (last'.op = "hello" /\ prom[a] = "pending")]_vars

C16_Witness ==
  /\ last.op = "hello" /\ last.r = "resolved"
  /\ challengeNonce # 0
  /\ \E r \in ReqIds : rkind[r] = "connect" /\ rremoved[r] = 1
  /\ getConnectionState = "connected" /\ pingInterval
  /\ ws # NoSlot /\ prom[ws] = "resolved"

(***************************************************************************)
(* C17: an error response rejects the pending connect() promise of its     *)
(* socket and only that; it does not set connected, does not start the     *)
(* heartbeat, writes no frame, issues no request and opens no socket.      *)
(***************************************************************************)
C17_ErrorRejectsConnect ==
  [][last'.op = "errorRes"
       => /\ connected' = connected /\ pingInterval' = pingInterval
          /\ wrote' = <<>> /\ requestId' = requestId
          /\ ws' = ws /\ rs' = rs /\ connectionAttempts' = connectionAttempts
          /\ \A a \in Slots : prom'[a] # prom[a]
               => (prom[a] = "pending" /\ prom'[a] = "rejected")
          /\ last'.r = "rejected"
               => \E a \in Slots : prom[a] = "pending" /\ prom'[a] = "rejected"
          /\ ~connected => GetState(ws', rs', connected') # "connected"]_vars

C17_Witness ==
  /\ last.op = "errorRes" /\ last.r = "rejected"
  /\ ~connected /\ ~pingInterval
  /\ getConnectionState = "authenticating"
  /\ challengeNonce # 0
  /\ \E r \in ReqIds : rkind[r] = "connect" /\ rremoved[r] = 1

(***************************************************************************)
(* C18: a hello-ok sets the attempt counter to 0 whatever it was; a        *)
(* connect() invocation that starts a new attempt adds exactly one to it,  *)
(* and one that returns the promise in flight leaves it alone.             *)
(***************************************************************************)
C18_AttemptCounter ==
  [][/\ last'.op = "hello" => connectionAttempts' = 0
     /\ (last'.op \in {"connect", "reconnect"} /\ last'.r \in {"opened", "threw"})
          => connectionAttempts' = connectionAttempts + 1
     /\ (last'.op \in {"connect", "reconnect"} /\ last'.r = "same")
          => connectionAttempts' = connectionAttempts]_vars

C18_Witness ==
  /\ last.op = "hello" /\ last.r = "resolved"
  /\ connectionAttempts = 0
  /\ \E a \in Slots : rs[a] = "CLOSED" /\ prom[a] = "rejected"

(***************************************************************************)
(* C19: the persisted device token changes only when a hello-ok response   *)
(* that carries a device token is received, and then becomes that token;   *)
(* a hello-ok without one and every other operation leave it as it is.     *)
(***************************************************************************)
C19_DeviceTokenWrites ==
  [][/\ last'.op = "hello"
          => deviceToken' = (IF last'.tok # 0 THEN last'.tok ELSE deviceToken)
     /\ last'.op # "hello" => deviceToken' = deviceToken
     /\ deviceToken # 0 => deviceToken' # 0]_vars

C19_Witness ==
  /\ last.op = "hello" /\ last.tok = 2
  /\ deviceToken = 2 /\ configToken = 1
  /\ \E r \in ReqIds : rkind[r] = "connect" /\ r \in pendingRequests

(***************************************************************************)
(* C20: the auth block of every connect request carries the configured     *)
(* token when there is one, the persisted device token only when there is  *)
(* no configured token, and never both.                                    *)
(***************************************************************************)
C20_AuthEitherOr ==
  [][last'.op = "challenge"
       => \A i \in 1..Len(wrote') :
            LET au == wrote'[i][2].auth IN
            /\ ~(au.token # 0 /\ au.deviceToken # 0)
            /\ au.token = configToken
            /\ au.deviceToken = (IF configToken = 0 THEN deviceToken ELSE 0)]_vars

C20_Witness ==
  /\ last.op = "challenge" /\ last.r = "sent"
  /\ configToken # 0 /\ deviceToken # 0
  /\ wrote # <<>>
  /\ wrote[1][2].auth.deviceToken = 0

(***************************************************************************)
(* C21: when a socket closes whose connect() promise has not been          *)
(* resolved, that promise ends rejected, connected is false and no connect *)
(* promise is held; when the socket is the one the client holds the state  *)
(* is 'disconnected'.                                                      *)
(***************************************************************************)
C21_EarlyCloseRejects ==
  [][\A a \in Slots :
       (last'.op = "close" /\ rs[a] # "CLOSED" /\ rs'[a] = "CLOSED" /\ prom[a] # "resolved")
         => /\ prom'[a] = "rejected"
            /\ ~connected'
            /\ connectPromise' = NoSlot
            /\ a = ws => (GetState(ws', rs', connected') = "disconnected"
                          /\ ~IsConn(ws', rs', connected'))]_vars

C21_Witness ==
  /\ last.op = "close" /\ last.r = "early"
  /\ ws # NoSlot /\ rs[ws] = "CLOSED" /\ prom[ws] = "rejected"
  /\ challengeNonce = 0
  /\ \E r \in ReqIds : rkind[r] = "connect" /\ r \in pendingRequests

(***************************************************************************)
(* C22: the client holds a transport handle if and only if its state is    *)
(* not Disconnected: getConnectionState() is 'disconnected' exactly when   *)
(* this.ws is null.                                                        *)
(***************************************************************************)
C22_HandleIffNotDisconnected == (getConnectionState = "disconnected") <=> (ws = NoSlot)

(***************************************************************************)
(* C23: request ids are unique: the ids issued so far are exactly 1 up to  *)
(* the counter, and a step that registers a request (a handshake connect   *)
(* request or an accepted send) gives it an id never issued before, adds   *)
(* its entry to the map and touches no other request.                      *)
(***************************************************************************)
C23_UniqueRequestIds ==
  /\ [](/\ \A r \in ReqIds : rkind[r] # "none" <=> r <= requestId
        /\ pendingRequests \subseteq 1..requestId)
  /\ [][(last'.op = "challenge" \/ (last'.op = "send" /\ last'.r = "accepted"))
          => /\ requestId' \notin pendingRequests
             /\ requestId' \in ReqIds /\ rkind[requestId'] = "none"
             /\ pendingRequests' = pendingRequests \cup {requestId'}
             /\ \A r \in ReqIds \ {requestId'} :
                  rkind'[r] = rkind[r] /\ rprom'[r] = rprom[r]]_vars

C23_Witness ==
  /\ requestId = 3
  /\ rkind[1] = "connect" /\ rkind[2] = "send" /\ rkind[3] = "connect"
  /\ {2, 3} \subseteq pendingRequests

(***************************************************************************)
(* C24: a response with ok false and the server's error object that        *)
(* matches a pending request rejects its promise with an error carrying    *)
(* the server's code and the server's message.                             *)
(***************************************************************************)
C24_ErrorCarriesCodeAndMessage ==
  [][\A r \in ReqIds :
       (last'.op = "errorRes" /\ rkind[r] = "send"
          /\ r \in pendingRequests /\ r \notin pendingRequests')
         => /\ rprom'[r] \notin {"pending", "resolved"}
            /\ ErrorOf(rprom'[r]).message = ServerError.message
            /\ ErrorOf(rprom'[r]).code = ServerError.code]_vars

C27_ThrowingHandlerIsolated ==
  [][last'.op = "emit"
       => /\ last'.r = "returned"
          /\ Len(calls') = Len(HandlersOf(last'.topic)) + Len(HandlersOf("*"))
          /\ \A i \in 1..Len(HandlersOf(last'.topic)) :
               calls'[i] = <<HandlersOf(last'.topic)[i], PlainArg(last'.data)>>
          /\ \A j \in 1..Len(HandlersOf("*")) :
               calls'[Len(HandlersOf(last'.topic)) + j]
                 = <<HandlersOf("*")[j], WildArg(last'.topic, last'.data)>>]_vars

C27_Witness ==
  /\ last.op = "emit" /\ last.topic = "tick" /\ last.r = "returned"
  /\ Len(eventHandlers["tick"]) >= 2
  /\ eventHandlers["tick"][1] \in last.throwers
  /\ Len(eventHandlers["*"]) >= 1
  /\ Len(calls) = Len(eventHandlers["tick"]) + Len(eventHandlers["*"])

\* the handlers called with the bare data, in call order
PlainCalls(cs) ==
  LET sel == SelectSeq(cs, LAMBDA c : c[2].kind = "data") IN
  [i \in 1..Len(sel) |-> sel[i][1]]

NoDuplicates(seq) == \A i, j \in 1..Len(seq) : seq[i] = seq[j] => i = j

(***************************************************************************)
(* C28: the handlers of a topic are kept without duplicates in the order   *)
(* of their registration: on() of a handler not yet registered puts it     *)
(* after the registered ones, on() of a registered one and off() of an     *)
(* unregistered one change nothing, off() removes that handler and keeps   *)
(* the order of the others, and no call touches another topic.  An         *)
(* emission on the topic calls each of its handlers once with the data,    *)
(* in that order.                                                          *)
(***************************************************************************)
C28_RegistrationOrder ==
  /\ [](\A t \in Topics : NoDuplicates(eventHandlers[t]))
  /\ [][/\ last'.op = "on"
           => /\ eventHandlers'[last'.r] =
                   (IF Has(eventHandlers[last'.r], last'.h) THEN eventHandlers[last'.r]
                    ELSE eventHandlers[last'.r] \o <<last'.h>>)
              /\ \A t \in Topics \ {last'.r} : eventHandlers'[t] = eventHandlers[t]
        /\ last'.op = "off"
           => /\ ~Has(eventHandlers'[last'.r], last'.h)
              /\ \A i, j \in 1..Len(eventHandlers[last'.r]) :
                   (i < j /\ eventHandlers[last'.r][i] # last'.h
                          /\ eventHandlers[last'.r][j] # last'.h)
                     => \E k, l \in 1..Len(eventHandlers'[last'.r]) :
                          /\ k < l
                          /\ eventHandlers'[last'.r][k] = eventHandlers[last'.r][i]
                          /\ eventHandlers'[last'.r][l] = eventHandlers[last'.r][j]
              /\ Len(eventHandlers'[last'.r]) =
                   Len(eventHandlers[last'.r])
                     - (IF Has(eventHandlers[last'.r], last'.h) THEN 1 ELSE 0)
              /\ \A t \in Topics \ {last'.r} : eventHandlers'[t] = eventHandlers[t]
        /\ last'.op = "emit"
           => /\ PlainCalls(calls') = HandlersOf(last'.topic)
              /\ eventHandlers' = eventHandlers]_vars

C28_Witness ==
  /\ last.op = "emit" /\ last.topic = "tick"
  /\ eventHandlers["tick"] = <<3, 1>>
  /\ PlainCalls(calls) = <<3, 1>>

\* how many of the calls went to handler h
CallsTo(cs, h) == Cardinality({i \in 1..Len(cs) : cs[i][1] = h})

(***************************************************************************)
(* C29: a wildcard subscription receives every emission exactly once, as   *)
(* the {event, data} object, whatever the topic.  Stated for the handlers  *)
(* subscribed to the wildcard topic only.                                  *)
(***************************************************************************)
C29_WildcardOncePerEmission ==
  [][last'.op = "emit"
       => \A h \in HandlerIds :
            (Has(HandlersOf("*"), h) /\ ~Has(HandlersOf("tick"), h))
              => /\ CallsTo(calls', h) = 1
                 /\ \A i \in 1..Len(calls') :
                      calls'[i][1] = h
                        => calls'[i][2] = WildArg(last'.topic, last'.data)]_vars

(***************************************************************************)
(* C30: an event frame whose name is not connect.challenge is emitted      *)
(* first under its own name with its payload: the handlers of that name    *)
(* receive the payload and the wildcard handlers receive the name and the  *)
(* payload, before anything else the frame causes, and any further         *)
(* emission of that frame is under a different name.  Each frame is        *)
(* handled to the end in the step that delivers it, so the emissions       *)
(* follow the order of delivery.  A connect.challenge frame emits          *)
(* challenge_received only: no handler is called for connect.challenge.    *)
(***************************************************************************)
C30_EventsReemitted ==
  [][/\ last'.op = "event"
          => /\ emitted' # <<>>
             /\ emitted'[1] = last'.r
             /\ \A i \in 2..Len(emitted') : emitted'[i] # last'.r
             /\ LET own == EmitRun(last'.r, last'.payload, {}).calls IN
                /\ Len(calls') >= Len(own)
                /\ SubSeq(calls', 1, Len(own)) = own
                /\ \A i \in Len(own) + 1..Len(calls') :
                     /\ calls'[i][2].data = last'.payload
                     /\ calls'[i][2].kind = "object" => calls'[i][2].event # last'.r
     /\ last'.op = "challenge"
          => /\ emitted' = <<"challenge_received">>
             /\ \A i \in 1..Len(calls') :
                  /\ calls'[i][2].kind = "object"
                  /\ calls'[i][2].event = "challenge_received"]_vars

C30_Witness ==
  /\ last.op = "event" /\ last.r = "tick" /\ last.payload = 8
  /\ eventHandlers["tick"] = <<2, 1>>
  /\ eventHandlers["*"] = <<1>>
  /\ calls = << <<2, PlainArg(8)>>, <<1, PlainArg(8)>>, <<1, WildArg("tick", 8)>> >>

(***************************************************************************)
(* C31: a connect timeout armed by an attempt whose transport the client   *)
(* no longer holds acts on nothing of the attempt the client holds now: it *)
(* does not close that attempt's transport, does not clear the in-flight   *)
(* promise and does not reject it.                                         *)
(***************************************************************************)
C31_StaleConnectTimeout ==
  [][\A a \in Slots :
       (/\ last'.op = "connectTimeout"
        /\ ctimer[a] = "armed" /\ ctimer'[a] = "none"
        /\ ws # NoSlot /\ ws # a)
         => /\ rs'[ws] = rs[ws]
            /\ connectPromise' = connectPromise
            /\ prom'[ws] = prom[ws]]_vars

(***************************************************************************)
(* C32: the close event of a transport the client holds no more (it was    *)
(* discarded by disconnect() and a later connect() opened another one)     *)
(* leaves the newer attempt alone: the in-flight connect promise, the      *)
(* connected flag and the heartbeat stay as they were.                     *)
(***************************************************************************)
C32_StaleCloseEvent ==
  [][\A a \in Slots :
       (/\ last'.op = "close"
        /\ rs[a] = "CLOSING" /\ rs'[a] = "CLOSED"
        /\ prom[a] # "rejected"        \* let go by disconnect(), which rejects nothing
        /\ ws # NoSlot /\ ws # a /\ Live(ws))
         => /\ connectPromise' = connectPromise
            /\ connected' = connected
            /\ pingInterval' = pingInterval]_vars

(***************************************************************************)
(* C33: after the terminal max_reconnects event the client holds no        *)
(* reconnect timer, and the explicit connect() that follows starts an      *)
(* attempt with the attempt counter reset (that attempt being the first    *)
(* one counted), so that a failure after it can schedule a reconnection    *)
(* again.                                                                  *)
(***************************************************************************)
C33_ConnectResetsCounter ==
  [][Has(emitted, "max_reconnects")
       => /\ ~reconnectTimer
          /\ (last'.op = "connect" /\ last'.r # "same")
               => /\ connectionAttempts' <= 1
                  /\ connectionAttempts' < maxReconnectAttempts]_vars

(***************************************************************************)
(* C34: connect() never hands back a promise that is already rejected: a   *)
(* call that finds the last attempt's promise rejected starts a new        *)
(* attempt.                                                                *)
(***************************************************************************)
C34_FreshAttemptAfterRejection ==
  [][(last'.op = "connect" /\ connectPromise # NoSlot
        /\ prom[connectPromise] = "rejected")
       => /\ last'.r = "opened"
          /\ connectPromise' # connectPromise
          /\ prom'[connectPromise'] = "pending"]_vars

(***************************************************************************)
(* C35: every connect() promise eventually settles when timers fire: an    *)
(* attempt whose promise is pending gets it resolved or rejected, also     *)
(* when the transport opens and the server then stays silent.              *)
(***************************************************************************)
C35_ConnectPromiseSettles ==
  \A a \in 1..FairSlots : (prom[a] = "pending") ~> (prom[a] # "pending")

(***************************************************************************)
(* C36: every entry of the pending-request map, the connect request's      *)
(* included, is removed in the end when timers fire.                       *)
(***************************************************************************)
C36_EntriesLeaveTheMap ==
  \A r \in 1..FairReqs : (r \in pendingRequests) ~> (r \notin pendingRequests)

(***************************************************************************)
(* C37: a connect.challenge received on the authenticated session (the     *)
(* client is connected and the attempt's promise is resolved) sends no     *)
(* connect request, registers no pending request and leaves the connection *)
(* state as it was.                                                        *)
(***************************************************************************)
C37_ChallengeWhenAuthenticated ==
  [][(last'.op = "challenge" /\ isConnected /\ prom[ws] = "resolved")
       => /\ wrote' = <<>>
          /\ pendingRequests' = pendingRequests
          /\ requestId' = requestId
          /\ getConnectionState' = getConnectionState
          /\ connected' = connected]_vars

(***************************************************************************)
(* C38: the challenge nonce is held only while a handshake is under way    *)
(* (the socket is open, the client not yet connected, the connect request  *)
(* unanswered); it is absent in every disconnected state, in particular    *)
(* after disconnect().                                                     *)
(***************************************************************************)
C38_NonceOnlyDuringHandshake ==
  challengeNonce # 0
    => /\ getConnectionState = "authenticating"
       /\ \E r \in pendingRequests : rkind[r] = "connect"
       /\ last.op # "disconnect"

====
